---- MODULE Spec2Model ----
(***************************************************************************)
(* Model of the streaming comment scanner of src/src/decomments.rs:        *)
(* the rule tables, the lookahead buffer Buf, the single step next_ of     *)
(* WithoutComments, and the construction done by purge_commentaries.       *)
(*                                                                         *)
(* A char is a one-character string, a &str is a tuple of chars, and an    *)
(* Option<T> is a tuple of length 0 (None) or 1 (Some(x)).                 *)
(***************************************************************************)
EXTENDS Integers, Sequences, FiniteSets, TLC

VARIABLES
    comments,          \* WithoutComments.comments, the rule table
    input,             \* the whole upstream text (never changes)
    iter,              \* WithoutComments.iter: what upstream has not yielded yet
    buf,               \* WithoutComments.buf: the VecDeque's contents
    cap,               \* WithoutComments.buf: the VecDeque's capacity()
    state,             \* WithoutComments.state: Option<(usize, Option<usize>)>
    in_string,         \* WithoutComments.in_string
    string_delimiter,  \* WithoutComments.string_delimiter: Option<char>
    escape_next,       \* WithoutComments.escape_next
    out,               \* the characters returned so far by next (what collect gathers)
    res,               \* what the last call of next_ returned: "Some", "None", "Wait"
    pc,                \* "new", "run", "eos", "panic_config", "panic_close", "panic_buf"
    seen,              \* history: what the Code-mode steps have met at the buffer front
    opened_at          \* history: the index in input where the last comment opened

vars == <<comments, input, iter, buf, cap, state, in_string, string_delimiter,
          escape_next, out, res, pc, seen, opened_at>>

----------------------------------------------------------------------------
(* Option<T> *)

None == <<>>

Some(x) == <<x>>

(* characters with a role in the source *)

NL == "\n"

DQ == "\""

SQ == "'"

BS == "\\"

\* the backtick, U+0060 (a TLA+ string cannot hold the character itself)
BT == "BACKTICK"

\* the section sign, U+00A7: a character that takes two bytes in UTF-8
SECT == "SECTION"

\* char::len_utf8 for the characters of the model
len_utf8(c) == IF c = SECT THEN 2 ELSE 1

\* str::len: the length of a &str in BYTES
RECURSIVE len(_)
len(pat) == IF pat = <<>> THEN 0 ELSE len_utf8(Head(pat)) + len(Tail(pat))

----------------------------------------------------------------------------
(* The rule tables, decomments.rs lines 11-89 *)

Comment(o, c, n, k, a) ==
    [open_pat |-> o, close_pat |-> c, nests |-> n,
     keep_close_pat |-> k, allow_close_pat |-> a]

\* SL_COMMENT with the newline dropped with the comment
SL_COMMENT_drops_newline == Comment(<<"/", "/">>, <<NL>>, FALSE, FALSE, TRUE)

SL_COMMENT == Comment(<<"/", "/">>, <<NL>>, FALSE, TRUE, TRUE)

BLOCK_COMMENT == Comment(<<"/", "*">>, <<"*", "/">>, FALSE, FALSE, FALSE)

RUSTC == <<SL_COMMENT, BLOCK_COMMENT>>

PYTHON ==
    << Comment(<<"#">>, <<NL>>, FALSE, TRUE, TRUE),
       Comment(<<SQ, SQ, SQ>>, <<SQ, SQ, SQ>>, FALSE, FALSE, FALSE),
       Comment(<<DQ, DQ, DQ>>, <<DQ, DQ, DQ>>, FALSE, FALSE, FALSE) >>

HASKELL ==
    << Comment(<<"-", "-">>, <<NL>>, FALSE, TRUE, TRUE),
       Comment(<<"{", "-">>, <<"-", "}">>, TRUE, FALSE, FALSE) >>

MARKUP ==
    << Comment(<<"<", "!", "-", "-">>, <<"-", "-", ">">>, FALSE, FALSE, FALSE) >>

----------------------------------------------------------------------------
(* Buf, decomments.rs lines 93-132 *)

\* Buf::is_full: len() == capacity()
is_full(b, c) == Len(b) = c

\* Buf::fill_up: push upstream characters until the buffer is full or upstream
\* is exhausted. The result is the pair <<buffer, rest of upstream>>.
RECURSIVE fill_up(_, _, _)
fill_up(b, it, c) ==
    IF is_full(b, c) \/ it = <<>>
    THEN <<b, it>>
    ELSE fill_up(Append(b, Head(it)), Tail(it), c)

\* Iterator::take(n) on the buffer
take(b, n) == SubSeq(b, 1, IF n < Len(b) THEN n ELSE Len(b))

\* Buf::matches: self.iter().take(pat.len()).copied().eq(pat.chars()); take
\* counts characters of the buffer, pat.len() counts bytes of the pattern
matches(b, pat) == take(b, len(pat)) = pat

\* Buf::pop_front and Buf::pop_front_n panic when the buffer is too short
can_pop(b, n) == n <= Len(b)

\* what is left after pop_front_n(n) (pop_front is n = 1)
pop_front_n(b, n) == SubSeq(b, n + 1, Len(b))

----------------------------------------------------------------------------
(* purge_commentaries and WithoutComments::new, decomments.rs lines 162-172, 302-316 *)

\* the loop of purge_commentaries: the longest open or close pattern
RECURSIVE longest_pat(_, _, _)
longest_pat(language, i, acc) ==
    IF i > Len(language)
    THEN acc
    ELSE LET o == len(language[i].open_pat)
             c == len(language[i].close_pat)
             a == IF o > acc THEN o ELSE acc
         IN  longest_pat(language, i + 1, IF c > a THEN c ELSE a)

buf_len(language) == longest_pat(language, 1, 0)

\* VecDeque::with_capacity(n) gives space for AT LEAST n elements, and
\* is_full compares with capacity(): exactly n with the current standard
\* library, more with others (before Rust 1.67 a power of two minus one,
\* which is 3 for n = 2).
with_capacity(n) == {n, n + 1}

purge_commentaries ==
    /\ pc = "new"
    /\ IF buf_len(comments) = 0      \* assert_ne!(buf_len, 0)
       THEN /\ pc' = "panic_config"
            /\ cap' = cap
       ELSE /\ pc' = "run"
            /\ cap' \in with_capacity(buf_len(comments))
    /\ buf' = <<>>
    /\ state' = None
    /\ in_string' = FALSE
    /\ string_delimiter' = None
    /\ escape_next' = FALSE
    /\ UNCHANGED <<comments, input, iter, out, res, seen, opened_at>>

----------------------------------------------------------------------------
(* WithoutComments::next_, decomments.rs lines 174-281 *)

\* the buffer and the upstream after self.buf.fill_up(&mut self.iter)
filled == fill_up(buf, iter, cap)

\* What one call of next_ does once the buffer is filled:
\*   pop    how many characters leave the front of the buffer
\*   ret    the result: None, Some(<<c>>) for Some(c), Some(<<>>) for Wait
\*   st, ins, delim, esc   the new state, in_string, string_delimiter, escape_next
\*   panic  TRUE when the step ends in panic!(..) of line 255
Effect(pop, ret, st, ins, delim, esc, panic) ==
    [pop |-> pop, ret |-> ret, st |-> st, ins |-> ins, delim |-> delim,
     esc |-> esc, panic |-> panic]

Wait == Some(<<>>)

Emit(c) == Some(<<c>>)

\* string_step with the backslash consumed but not returned
string_step_drops_backslash(b) ==
    LET current_char == Head(b)
    IN  IF current_char = BS /\ ~escape_next
        THEN Effect(1, Wait, state, in_string, string_delimiter, TRUE, FALSE)
        ELSE IF Some(current_char) = string_delimiter /\ ~escape_next
        THEN Effect(1, Emit(current_char), state, FALSE, None, FALSE, FALSE)
        ELSE Effect(1, Emit(current_char), state, in_string, string_delimiter,
                    FALSE, FALSE)

\* string_step with the comment rules tested before the string is read
string_step_opens_comment(b) ==
    LET current_char == Head(b)
    IN  IF \E i \in 1..Len(comments) : matches(b, comments[i].open_pat)
        THEN Effect(1, Wait, Some(<<0, None>>), FALSE, None, FALSE, FALSE)
        ELSE IF current_char = BS /\ ~escape_next
        THEN Effect(1, Emit(current_char), state, in_string, string_delimiter,
                    TRUE, FALSE)
        ELSE IF Some(current_char) = string_delimiter /\ ~escape_next
        THEN Effect(1, Emit(current_char), state, FALSE, None, FALSE, FALSE)
        ELSE Effect(1, Emit(current_char), state, in_string, string_delimiter,
                    FALSE, FALSE)

\* string_step with the delimiter test made without looking at escape_next
string_step_ignores_escape(b) ==
    LET current_char == Head(b)
    IN  IF current_char = BS /\ ~escape_next
        THEN Effect(1, Emit(current_char), state, in_string, string_delimiter,
                    TRUE, FALSE)
        ELSE IF Some(current_char) = string_delimiter
        THEN Effect(1, Emit(current_char), state, FALSE, None, FALSE, FALSE)
        ELSE Effect(1, Emit(current_char), state, in_string, string_delimiter,
                    FALSE, FALSE)

\* string_step with the closing delimiter leaving string_delimiter as it is
string_step_keeps_delimiter(b) ==
    LET current_char == Head(b)
    IN  IF current_char = BS /\ ~escape_next
        THEN Effect(1, Emit(current_char), state, in_string, string_delimiter,
                    TRUE, FALSE)
        ELSE IF Some(current_char) = string_delimiter /\ ~escape_next
        THEN Effect(1, Emit(current_char), state, FALSE, string_delimiter,
                    FALSE, FALSE)
        ELSE Effect(1, Emit(current_char), state, in_string, string_delimiter,
                    FALSE, FALSE)

\* lines 183-198: inside a string literal
string_step(b) ==
    LET current_char == Head(b)
    IN  IF current_char = BS /\ ~escape_next
        THEN Effect(1, Emit(current_char), state, in_string, string_delimiter,
                    TRUE, FALSE)
        ELSE IF Some(current_char) = string_delimiter /\ ~escape_next
        THEN Effect(1, Emit(current_char), state, FALSE, None, FALSE, FALSE)
        ELSE Effect(1, Emit(current_char), state, in_string, string_delimiter,
                    FALSE, FALSE)

\* comment_step with a quote inside the comment taken for the start of a string
comment_step_opens_string(b) ==
    LET idx     == state[1][1]
        nesting == state[1][2]
        comment == comments[idx + 1]
    IN  IF matches(b, comment.close_pat)
        THEN Effect(IF ~comment.keep_close_pat THEN len(comment.close_pat) ELSE 0,
                    Wait,
                    IF nesting = None \/ nesting = Some(0)
                    THEN None
                    ELSE Some(<<idx, Some(nesting[1] - 1)>>),
                    in_string, string_delimiter, escape_next, FALSE)
        ELSE IF nesting # None /\ matches(b, comment.open_pat)
        THEN Effect(len(comment.open_pat), Wait,
                    Some(<<idx, Some(nesting[1] + 1)>>),
                    in_string, string_delimiter, escape_next, FALSE)
        ELSE IF Head(b) \in {DQ, SQ}
        THEN Effect(1, Wait, None, TRUE, Some(Head(b)), escape_next, FALSE)
        ELSE Effect(1, Wait, state, in_string, string_delimiter, escape_next, FALSE)

\* lines 200-232: inside a comment; state = Some((idx, nesting))
comment_step(b) ==
    LET idx     == state[1][1]
        nesting == state[1][2]
        comment == comments[idx + 1]
    IN  IF matches(b, comment.close_pat)
        THEN Effect(IF ~comment.keep_close_pat THEN len(comment.close_pat) ELSE 0,
                    Wait,
                    IF nesting = None \/ nesting = Some(0)
                    THEN None
                    ELSE Some(<<idx, Some(nesting[1] - 1)>>),
                    in_string, string_delimiter, escape_next, FALSE)
        ELSE IF nesting # None /\ matches(b, comment.open_pat)
        THEN Effect(len(comment.open_pat), Wait,
                    Some(<<idx, Some(nesting[1] + 1)>>),
                    in_string, string_delimiter, escape_next, FALSE)
        ELSE Effect(1, Wait, state, in_string, string_delimiter, escape_next, FALSE)

\* code_step with every comment opened as a nesting one
RECURSIVE code_step_always_nests(_, _)
code_step_always_nests(b, idx) ==
    IF idx >= Len(comments)
    THEN Effect(1, Emit(Head(b)), state, in_string, string_delimiter,
                escape_next, FALSE)
    ELSE LET comment == comments[idx + 1]
         IN  IF matches(b, comment.open_pat)
             THEN Effect(len(comment.open_pat), Wait, Some(<<idx, Some(0)>>),
                         in_string, string_delimiter, escape_next, FALSE)
             ELSE IF matches(b, comment.close_pat) /\ ~comment.allow_close_pat
             THEN Effect(0, Wait, state, in_string, string_delimiter,
                         escape_next, TRUE)
             ELSE IF Head(b) \in {DQ, SQ}
             THEN Effect(1, Emit(Head(b)), state, TRUE, Some(Head(b)),
                         escape_next, FALSE)
             ELSE IF Head(b) = BT /\ matches(b, <<BT, BT, BT>>)
             THEN Effect(3, Emit(BT), state, TRUE, Some(BT), escape_next, FALSE)
             ELSE code_step_always_nests(b, idx + 1)

\* code_step with an ordinary character returned but left in the buffer
RECURSIVE code_step_emits_unpopped(_, _)
code_step_emits_unpopped(b, idx) ==
    IF idx >= Len(comments)
    THEN Effect(0, Emit(Head(b)), state, in_string, string_delimiter,
                escape_next, FALSE)
    ELSE LET comment == comments[idx + 1]
         IN  IF matches(b, comment.open_pat)
             THEN Effect(len(comment.open_pat), Wait,
                         Some(<<idx, IF comment.nests THEN Some(0) ELSE None>>),
                         in_string, string_delimiter, escape_next, FALSE)
             ELSE IF matches(b, comment.close_pat) /\ ~comment.allow_close_pat
             THEN Effect(0, Wait, state, in_string, string_delimiter,
                         escape_next, TRUE)
             ELSE IF Head(b) \in {DQ, SQ}
             THEN Effect(1, Emit(Head(b)), state, TRUE, Some(Head(b)),
                         escape_next, FALSE)
             ELSE IF Head(b) = BT /\ matches(b, <<BT, BT, BT>>)
             THEN Effect(3, Emit(BT), state, TRUE, Some(BT), escape_next, FALSE)
             ELSE code_step_emits_unpopped(b, idx + 1)

\* lines 234-279: in code; the loop over the rules from rule idx on
RECURSIVE code_step(_, _)
code_step(b, idx) ==
    IF idx >= Len(comments)
    THEN Effect(1, Emit(Head(b)), state, in_string, string_delimiter,
                escape_next, FALSE)
    ELSE LET comment == comments[idx + 1]
         IN  IF matches(b, comment.open_pat)
             THEN Effect(len(comment.open_pat), Wait,
                         Some(<<idx, IF comment.nests THEN Some(0) ELSE None>>),
                         in_string, string_delimiter, escape_next, FALSE)
             ELSE IF matches(b, comment.close_pat) /\ ~comment.allow_close_pat
             THEN Effect(0, Wait, state, in_string, string_delimiter,
                         escape_next, TRUE)
             ELSE IF Head(b) \in {DQ, SQ}
             THEN Effect(1, Emit(Head(b)), state, TRUE, Some(Head(b)),
                         escape_next, FALSE)
             ELSE IF Head(b) = BT /\ matches(b, <<BT, BT, BT>>)
             THEN Effect(3, Emit(BT), state, TRUE, Some(BT), escape_next, FALSE)
             ELSE code_step(b, idx + 1)

\* what the Code-mode step has at the front of the buffer (history only)
front_events(b) ==
    {e \in {"open", "close", "backticks"} :
        \/ e = "open" /\ \E i \in 1..Len(comments) : matches(b, comments[i].open_pat)
        \/ e = "close" /\ \E i \in 1..Len(comments) :
              matches(b, comments[i].close_pat) /\ ~comments[i].allow_close_pat
        \/ e = "backticks" /\ matches(b, <<BT, BT, BT>>)}

\* the assignments of one call of next_ with effect e on the filled buffer b
apply(b, it, e) ==
    /\ iter' = it
    /\ IF e.panic
       THEN /\ pc' = "panic_close"
            /\ buf' = b
            /\ UNCHANGED <<state, in_string, string_delimiter, escape_next, out, res>>
       ELSE IF ~can_pop(b, e.pop)
       THEN /\ pc' = "panic_buf"
            /\ buf' = b
            /\ UNCHANGED <<state, in_string, string_delimiter, escape_next, out, res>>
       ELSE /\ pc' = pc
            /\ buf' = pop_front_n(b, e.pop)
            /\ state' = e.st
            /\ in_string' = e.ins
            /\ string_delimiter' = e.delim
            /\ escape_next' = e.esc
            /\ out' = IF e.ret = Wait THEN out ELSE Append(out, e.ret[1][1])
            /\ res' = IF e.ret = Wait THEN "Wait" ELSE "Some"
    /\ UNCHANGED <<comments, input, cap>>

\* next_none with an unterminated comment or string treated as an error
next_none_strict ==
    /\ pc = "run"
    /\ filled[1] = <<>>
    /\ pc' = IF in_string \/ state # None THEN "panic_close" ELSE "eos"
    /\ res' = "None"
    /\ buf' = filled[1]
    /\ iter' = filled[2]
    /\ UNCHANGED <<comments, input, cap, state, in_string, string_delimiter,
                   escape_next, out, seen, opened_at>>

\* lines 176-180: the buffer is empty after the refill: end of stream
next_none ==
    /\ pc = "run"
    /\ filled[1] = <<>>
    /\ pc' = "eos"
    /\ res' = "None"
    /\ buf' = filled[1]
    /\ iter' = filled[2]
    /\ UNCHANGED <<comments, input, cap, state, in_string, string_delimiter,
                   escape_next, out, seen, opened_at>>

next_string ==
    /\ pc = "run"
    /\ filled[1] # <<>>
    /\ in_string
    /\ apply(filled[1], filled[2], string_step(filled[1]))
    /\ UNCHANGED <<seen, opened_at>>

next_comment ==
    /\ pc = "run"
    /\ filled[1] # <<>>
    /\ ~in_string
    /\ state # None
    /\ apply(filled[1], filled[2], comment_step(filled[1]))
    /\ UNCHANGED <<seen, opened_at>>

next_code ==
    /\ pc = "run"
    /\ filled[1] # <<>>
    /\ ~in_string
    /\ state = None
    /\ apply(filled[1], filled[2], code_step(filled[1], 0))
    /\ seen' = seen \cup front_events(filled[1])
    /\ opened_at' = IF state' # None
                    THEN Len(input) - Len(filled[2]) - Len(filled[1]) + 1
                    ELSE opened_at

----------------------------------------------------------------------------
(* The tables and the texts the scanner is run on *)

\* Rule tables a caller can pass to purge_commentaries besides the four of
\* the file (Comment and its fields are public): a nesting rule that keeps
\* its close pattern, and tables with an empty pattern or no rule at all.
NEST_KEEP == << Comment(<<"(">>, <<")">>, TRUE, TRUE, TRUE) >>

NO_OPEN == << Comment(<<>>, <<NL>>, FALSE, TRUE, TRUE) >>

NO_CLOSE == << Comment(<<"#">>, <<>>, FALSE, FALSE, TRUE) >>

NO_PATTERNS == << Comment(<<>>, <<>>, FALSE, FALSE, TRUE) >>

NO_RULES == << >>

\* a second rule whose close pattern starts with a quote and may not stand
\* alone, and a rule that keeps a close pattern that may not stand alone
QUOTE_CLOSE ==
    << Comment(<<"#">>, <<NL>>, FALSE, TRUE, TRUE),
       Comment(<<"<">>, <<DQ, ">">>, FALSE, FALSE, FALSE) >>

KEEP_FORBIDDEN == << Comment(<<"#">>, <<NL>>, FALSE, TRUE, FALSE) >>

\* a line comment whose open pattern is not ASCII
NON_ASCII == << Comment(<<SECT>>, <<NL>>, FALSE, TRUE, TRUE) >>

Languages == {RUSTC, PYTHON, HASKELL, MARKUP}

Tables ==
    Languages \cup {NEST_KEEP, NO_OPEN, NO_CLOSE, NO_PATTERNS, NO_RULES,
                    QUOTE_CLOSE, KEEP_FORBIDDEN, NON_ASCII}

\* a table the specification calls valid: a rule, and no empty pattern
Valid(cs) ==
    /\ cs # <<>>
    /\ \A i \in 1..Len(cs) : cs[i].open_pat # <<>> /\ cs[i].close_pat # <<>>

\* the longest text over all the tokens of a table, counted in tokens
MaxTok == 3

\* the longest text over the whole patterns alone, counted in tokens
MaxCore == 4

Patterns(cs) ==
    {cs[i].open_pat : i \in 1..Len(cs)} \cup {cs[i].close_pat : i \in 1..Len(cs)}

\* the characters of the table's patterns, a plain character, the two
\* quotes, the backslash and the backtick
Alphabet(cs) ==
    UNION {{p[j] : j \in 1..Len(p)} : p \in Patterns(cs)} \cup {"a", DQ, SQ, BS, BT}

\* a token is one character, one whole pattern, or the backtick triple
Tokens(cs) ==
    {<<c>> : c \in Alphabet(cs)} \cup (Patterns(cs) \ {<<>>}) \cup {<<BT, BT, BT>>}

\* the whole patterns, a plain character, a quote and the backslash
CoreTokens(cs) == (Patterns(cs) \ {<<>>}) \cup {<<"a">>, <<DQ>>, <<BS>>}

\* the texts made of at most n tokens
RECURSIVE Texts(_, _)
Texts(tokens, n) ==
    IF n = 0
    THEN {<<>>}
    ELSE LET shorter == Texts(tokens, n - 1)
         IN  shorter \cup {x \o t : x \in shorter, t \in tokens}

\* the examples of the specification's section 8
EX_STRING == <<"x", " ", "=", " ", DQ, "/", "/", " ", "k", "e", "e", "p", " ", "m", "e", DQ>>

EX_LINE == <<"a", " ", "/", "/", " ", "d", "r", "o", "p", " ", "t", "h", "i", "s", NL, "b">>

EX_LINE_OUT == <<"a", " ", NL, "b">>

EX_BLOCK == <<"a", " ", "/", "*", " ", "x", " ", "/", "*", " ", "y", " ", "*", "/", " ", "b">>

EX_OUT == <<"a", " ", " ", "b">>

EX_NEST == <<"a", " ", "{", "-", " ", "x", " ", "{", "-", " ", "y", " ", "-", "}", " ", "z", " ", "-", "}", " ", "b">>

EX_ESCAPE == <<DQ, "a", BS, DQ, "b", DQ>>

EX_UNTERMINATED == <<"a", " ", "/", "*", " ", "u", "n", "t", "e", "r", "m", "i", "n", "a", "t", "e", "d">>

EX_UNTERMINATED_OUT == <<"a", " ">>

Examples(cs) ==
    IF cs = RUSTC THEN {EX_STRING, EX_LINE, EX_BLOCK, EX_ESCAPE, EX_UNTERMINATED}
    ELSE IF cs = HASKELL THEN {EX_NEST}
    ELSE {}

Inputs(cs) ==
    Texts(Tokens(cs), MaxTok) \cup Texts(CoreTokens(cs), MaxCore) \cup Examples(cs)

----------------------------------------------------------------------------
(* The specification *)

InitWith(tables) ==
    /\ comments \in tables
    /\ input \in Inputs(comments)
    /\ iter = input
    /\ buf = <<>>
    /\ cap = 0
    /\ state = None
    /\ in_string = FALSE
    /\ string_delimiter = None
    /\ escape_next = FALSE
    /\ out = <<>>
    /\ res = "Wait"
    /\ pc = "new"
    /\ seen = {}
    /\ opened_at = 0

Init == InitWith(Tables)

Next ==
    \/ purge_commentaries
    \/ next_none
    \/ next_string
    \/ next_comment
    \/ next_code

Spec == Init /\ [][Next]_vars

\* The same scanner on the texts of whole patterns alone, of at most MaxTok
\* tokens. collect drives next, and next calls next_ again on Wait (line
\* 288): a step that can be taken is taken.
InitShort ==
    /\ InitWith(Tables)
    /\ input \in Texts(CoreTokens(comments), MaxTok) \cup Examples(comments)

FairSpec == InitShort /\ [][Next]_vars /\ WF_vars(Next)

----------------------------------------------------------------------------
(* Notions the properties share *)

\* the scan is over: end of stream, or one of the panics
Done == pc \in {"eos", "panic_config", "panic_close", "panic_buf"}

Fatal == pc \in {"panic_config", "panic_close", "panic_buf"}

\* how many characters of the input have left the front of the buffer
Pos == Len(input) - Len(iter) - Len(buf)

\* the modes of the specification
InCode == ~in_string /\ state = None

InComment == ~in_string /\ state # None

\* a call of next_ that classifies a character (the buffer is not empty)
Stepping == pc = "run" /\ filled[1] # <<>>

\* pattern pat stands in text x at index k
OccursAt(x, pat, k) ==
    /\ k >= 1
    /\ k + Len(pat) - 1 <= Len(x)
    /\ SubSeq(x, k, k + Len(pat) - 1) = pat

\* the characters with a role under table cs: those of its patterns, the
\* quotes, the backslash and the backtick
Special(cs) == Alphabet(cs) \ {"a"}

\* x[from..to] holds no character with a role
Plain(cs, x, from, to) == \A k \in from..to : x[k] \notin Special(cs)

----------------------------------------------------------------------------
(* C1 *)

\* C1 as stated: for a valid table and an input in which the Code-mode
\* steps never have a rule's open pattern at the front of the buffer (no
\* open pattern outside string literals), the scan ends without a fatal
\* error and has emitted exactly the input.
C1_AsStated ==
    (Done /\ Valid(comments) /\ "open" \notin seen) => (pc = "eos" /\ out = input)

\* C1, amended: for a valid table and an input in which the Code-mode steps
\* never have at the front of the buffer a rule's open pattern, the close
\* pattern of a rule with allow_close_pat = false, or a backtick triple, no
\* fatal error is raised, every step emits the character it consumes, and
\* at end of stream the output is exactly the input.
C1_Unchanged ==
    (pc # "new" /\ Valid(comments) /\ seen = {}) =>
        /\ ~Fatal
        /\ out = SubSeq(input, 1, Pos)
        /\ (pc = "eos" => out = input)

\* a text with a comment marker inside a string, passed through
C1_Witness ==
    /\ comments = RUSTC
    /\ input = <<"a", DQ, "/", "/", DQ>>
    /\ pc = "eos"
    /\ seen = {}
    /\ out = input

----------------------------------------------------------------------------
(* C2 *)

\* a string opened by " or ' (not by the backtick triple)
InQuotedString == in_string /\ string_delimiter \in {Some(DQ), Some(SQ)}

C2_Step ==
    /\ (comments = RUSTC /\ Stepping /\ InQuotedString) =>
          /\ state = None /\ state' = None
          /\ pc' = "run"
          /\ Pos' = Pos + 1
          /\ out' = Append(out, input[Pos + 1])
    /\ (comments = RUSTC /\ input = EX_STRING /\ pc' = "eos") => out' = EX_STRING

\* C2: with the RUSTC table, every step taken inside a string opened by "
\* or ' emits the one character it consumes and leaves the scanner out of
\* any comment, whatever stands at the front of the buffer (a // or /*
\* included); the text x = "// keep me" comes out unchanged.
C2_StringImmune == [][C2_Step]_vars

\* the scanner is inside the string of the example and has emitted the //
C2_Witness ==
    /\ comments = RUSTC
    /\ input = EX_STRING
    /\ InQuotedString
    /\ state = None
    /\ out = SubSeq(EX_STRING, 1, 7)

----------------------------------------------------------------------------
(* C3 *)

\* the state inside the // comment of RUSTC (rule 0, which does not nest)
InLineComment == ~in_string /\ state = Some(<<0, None>>)

C3_Step ==
    comments = RUSTC =>
        \* // in Code mode opens the comment and is not emitted
        /\ (Stepping /\ InCode /\ matches(filled[1], <<"/", "/">>)) =>
              /\ InLineComment'
              /\ out' = out
              /\ Pos' = Pos + 2
        \* up to the newline the comment is dropped; the newline ends the
        \* comment and stays in the buffer
        /\ (Stepping /\ InLineComment) =>
              /\ out' = out
              /\ IF Head(filled[1]) = NL
                 THEN InCode' /\ Pos' = Pos /\ Head(buf') = NL
                 ELSE InLineComment' /\ Pos' = Pos + 1
        \* the newline is then emitted as code
        /\ (Stepping /\ InCode /\ Head(filled[1]) = NL) =>
              /\ InCode'
              /\ out' = Append(out, NL)
              /\ Pos' = Pos + 1
        /\ (input = EX_LINE /\ pc' = "eos") => out' = EX_LINE_OUT

\* C3: with the RUSTC table, // met in Code mode opens a comment without
\* output, no character is emitted up to the next newline, and that newline
\* ends the comment and is emitted as the next character of the code; the
\* text "a // drop this\nb" yields "a \nb".
C3_LineComment == [][C3_Step]_vars

\* the example has been scanned to its end
C3_Witness ==
    /\ comments = RUSTC
    /\ input = EX_LINE
    /\ pc = "eos"
    /\ out = EX_LINE_OUT

----------------------------------------------------------------------------
(* C4 *)

\* the rule of the comment the scanner is in
Rule == comments[state[1][1] + 1]

\* the nesting depth of the comment the scanner is in: None or Some(depth)
Nesting == state[1][2]

\* the first index at or after from where pat stands in x; 0 if there is none
RECURSIVE FirstAt(_, _, _)
FirstAt(x, pat, from) ==
    IF from + Len(pat) - 1 > Len(x) THEN 0
    ELSE IF OccursAt(x, pat, from) THEN from
    ELSE FirstAt(x, pat, from + 1)

C4_Step ==
    (Valid(comments) /\ Stepping /\ InComment /\ ~Rule.nests) =>
        /\ Nesting = None
        /\ out' = out
        /\ IF FirstAt(input, Rule.close_pat, opened_at + Len(Rule.open_pat)) = Pos + 1
           THEN /\ InCode'
                /\ ~Rule.keep_close_pat => Pos' = Pos + Len(Rule.close_pat)
           ELSE /\ state' = state /\ ~in_string'
                /\ Pos' = Pos + 1

C4_Example == (comments = RUSTC /\ input = EX_BLOCK /\ pc = "eos") => out = EX_OUT

\* C4: for a rule with nests = false of a valid table, every step inside
\* its comment emits nothing; the step that finds the first occurrence of
\* the close pattern after the open pattern returns to Code mode, whatever
\* open patterns came before it, and consumes the close pattern unless it
\* is kept; every other step drops one character and stays in the comment.
\* The text "a /* x /* y */ b" yields "a  b" with RUSTC.
C4_FirstCloseEnds == [][C4_Step]_vars /\ []C4_Example

\* a block comment that held a second open pattern has been closed by the
\* first close pattern
C4_Witness ==
    /\ comments = RUSTC
    /\ input = <<"a", "/", "*", "/", "*", "*", "/">>
    /\ pc = "eos"
    /\ opened_at = 2
    /\ out = <<"a">>

----------------------------------------------------------------------------
(* C5 *)

\* Inside a comment of rule r at depth d, reading x from index k: the index
\* where the close pattern that balances every open pattern starts; 0 if
\* the text ends first.
RECURSIVE MatchingClose(_, _, _, _)
MatchingClose(x, r, k, d) ==
    IF k > Len(x) THEN 0
    ELSE IF OccursAt(x, r.close_pat, k)
    THEN IF d = 0 THEN k ELSE MatchingClose(x, r, k + Len(r.close_pat), d - 1)
    ELSE IF OccursAt(x, r.open_pat, k)
    THEN MatchingClose(x, r, k + Len(r.open_pat), d + 1)
    ELSE MatchingClose(x, r, k + 1, d)

C5_Step ==
    (Valid(comments) /\ Stepping /\ InComment /\ Rule.nests) =>
        /\ Nesting # None
        /\ Nesting[1] >= 0
        /\ out' = out
        /\ IF OccursAt(input, Rule.close_pat, Pos + 1)
           THEN IF MatchingClose(input, Rule, opened_at + Len(Rule.open_pat), 0) = Pos + 1
                THEN InCode'
                ELSE /\ InComment'
                     /\ Nesting' = Some(Nesting[1] - 1)
           ELSE IF OccursAt(input, Rule.open_pat, Pos + 1)
           THEN /\ InComment'
                /\ Nesting' = Some(Nesting[1] + 1)
           ELSE state' = state

C5_Example == (comments = HASKELL /\ input = EX_NEST /\ pc = "eos") => out = EX_OUT

\* C5 as stated: for every rule with nests = true of a valid table, inside
\* its comment an occurrence of the open pattern raises the depth by one,
\* an occurrence of the close pattern lowers it by one, the depth is never
\* below 0, and the scanner returns to Code mode only at the close pattern
\* that balances every open pattern since the comment began; the text
\* "a {- x {- y -} z -} b" yields "a  b" with HASKELL.
C5_AsStated == [][C5_Step]_vars /\ []C5_Example

----------------------------------------------------------------------------
(* C6 *)

\* x is plain text around one triple quote
LoneTripleQuote(x) ==
    \E i \in 1..Len(x) :
        /\ OccursAt(x, <<DQ, DQ, DQ>>, i) \/ OccursAt(x, <<SQ, SQ, SQ>>, i)
        /\ Plain(PYTHON, x, 1, i - 1)
        /\ Plain(PYTHON, x, i + 3, Len(x))

\* C6 as stated: with the PYTHON table, the scan of a text that holds a
\* lone triple quote ends in the unbalanced-delimiter fatal error.
C6_AsStated ==
    (comments = PYTHON /\ LoneTripleQuote(input) /\ Done) => pc = "panic_close"

----------------------------------------------------------------------------
(* C7 *)

C7_Step ==
    (Stepping /\ in_string) =>
        LET c == input[Pos + 1]
        IN  /\ out' = Append(out, c)
            /\ Pos' = Pos + 1
            /\ IF escape_next
               THEN \* the character after an unescaped backslash closes nothing
                    /\ in_string'
                    /\ string_delimiter' = string_delimiter
                    /\ ~escape_next'
               ELSE IF c = BS
               THEN in_string' /\ string_delimiter' = string_delimiter /\ escape_next'
               ELSE /\ ~escape_next'
                    /\ in_string' <=> (Some(c) # string_delimiter)

\* the scanner is inside the string of "a\"b" from its first quote to its last
C7_Example ==
    (comments = RUSTC /\ input = EX_ESCAPE /\ pc \in {"run", "eos"}) =>
        /\ in_string <=> Len(out) \in 1..5
        /\ pc = "eos" => out = EX_ESCAPE

\* C7: every step inside a string emits the character it consumes; the
\* character after a backslash that is not itself escaped never closes the
\* string and leaves the escape flag false; an unescaped backslash sets the
\* flag; any other character closes the string exactly when it is the
\* delimiter. The text "a\"b" (quotes included) is emitted whole and the
\* scanner is back in Code mode only after its last quote.
C7_Escape == [][C7_Step]_vars /\ []C7_Example

\* the escaped quote of the example has been emitted and the string is open
C7_Witness ==
    /\ comments = RUSTC
    /\ input = EX_ESCAPE
    /\ in_string
    /\ ~escape_next
    /\ out = SubSeq(EX_ESCAPE, 1, 4)

----------------------------------------------------------------------------
(* C8 *)

C8_Step ==
    Valid(comments) =>
        \* the input runs out inside a comment or a string
        /\ (pc = "run" /\ filled[1] = <<>> /\ ~InCode) =>
              /\ pc' = "eos"
              /\ res' = "None"
              /\ out' = out
        \* opening a comment and every step inside it emit nothing
        /\ (Stepping /\ ~in_string /\ InComment') => out' = out
        /\ (Stepping /\ InComment) => (out' = out /\ pc' = "run")

C8_Example ==
    (comments = RUSTC /\ input = EX_UNTERMINATED /\ pc = "eos") =>
        out = EX_UNTERMINATED_OUT

\* C8: for a valid table, when the input is exhausted inside a comment or a
\* string the next step reports end of stream without a fatal error and
\* without output, and no step that opens a comment or runs inside one
\* emits a character; the text "a /* unterminated" yields "a ".
C8_EndOfInput == [][C8_Step]_vars /\ []C8_Example

\* the example has ended inside its comment
C8_Witness ==
    /\ comments = RUSTC
    /\ input = EX_UNTERMINATED
    /\ pc = "eos"
    /\ InComment
    /\ out = EX_UNTERMINATED_OUT

----------------------------------------------------------------------------
(* C9 *)

\* C9 as stated: for every table accepted at construction and every input,
\* repeated stepping reaches end of stream or the fatal error.
C9_AsStated == (pc = "run") ~> Done

----------------------------------------------------------------------------
(* C10 *)

\* C10 as stated: construction ends in the configuration error for every
\* table that is empty or holds a rule with an empty open or close pattern.
C10_AsStated == (pc # "new" /\ ~Valid(comments)) => pc = "panic_config"

----------------------------------------------------------------------------
(* C11 *)

\* some rule's open pattern stands at index k of the input
OpenAt(k) == \E i \in 1..Len(comments) : OccursAt(input, comments[i].open_pat, k)

\* the close pattern of a rule with allow_close_pat = false stands at index k
ForbiddenCloseAt(k) ==
    \E i \in 1..Len(comments) :
        ~comments[i].allow_close_pat /\ OccursAt(input, comments[i].close_pat, k)

C11_Step ==
    (Valid(comments) /\ Stepping /\ InCode
        /\ ForbiddenCloseAt(Pos + 1) /\ ~OpenAt(Pos + 1)) =>
            (pc' = "panic_close" /\ out' = out)

\* C11 as stated: for every valid table, a Code-mode step that has at the
\* front of the remaining input the close pattern of a rule with
\* allow_close_pat = false, and no rule's open pattern, ends the scan in
\* the unbalanced-delimiter error and emits nothing.
C11_AsStated == [][C11_Step]_vars

----------------------------------------------------------------------------
(* C12 *)

\* C12: in every reachable state the scanner is in exactly one of Code,
\* InComment and InString: in_string and state = Some(..) never hold
\* together, string_delimiter is Some exactly when in_string holds, and
\* escape_next holds only while in_string holds.
C12_Modes ==
    /\ ~(in_string /\ state # None)
    /\ (string_delimiter # None) <=> in_string
    /\ escape_next => in_string
    /\ Cardinality({m \in {"Code", "InComment", "InString"} :
            \/ m = "Code" /\ InCode
            \/ m = "InComment" /\ InComment
            \/ m = "InString" /\ in_string}) = 1

\* a string opened after a comment was closed, with a pending escape
C12_Witness ==
    /\ comments = RUSTC
    /\ input = <<"/", "*", "*", "/", DQ, BS>>
    /\ pc = "run"
    /\ in_string /\ escape_next /\ string_delimiter = Some(DQ)
    /\ state = None
    /\ out = <<DQ, BS>>

----------------------------------------------------------------------------
(* C13 *)

\* some rule's open pattern matches the front of the buffer b
OpenMatches(b) == \E i \in 1..Len(comments) : matches(b, comments[i].open_pat)

\* the 0-based index of the first rule, in table order, whose open pattern
\* matches the front of b
FirstOpen(b) ==
    CHOOSE i \in 0..(Len(comments) - 1) :
        /\ matches(b, comments[i + 1].open_pat)
        /\ \A j \in 0..(i - 1) : ~matches(b, comments[j + 1].open_pat)

\* every pattern of the table is made of one-byte characters
Ascii(cs) == \A p \in Patterns(cs) : len(p) = Len(p)

C13_Step ==
    (Stepping /\ InCode /\ Ascii(comments)) =>
        /\ OpenMatches(filled[1]) =>
              /\ state' # None
              /\ state'[1][1] = FirstOpen(filled[1])
              /\ ~in_string'
              /\ out' = out
        /\ in_string' => ~OpenMatches(filled[1])

\* C13 as stated: in Code mode (of a table with one-byte characters),
\* whenever some rule's open pattern matches the front of the buffer, the
\* step enters InComment for the first such rule in table order and emits
\* nothing; a string starts only when no rule's open pattern matches there.
C13_AsStated == [][C13_Step]_vars

----------------------------------------------------------------------------
(* C14 *)

\* the last call of next_ closed a comment: it returned Wait and left the
\* scanner in Code mode (a Code-mode call that returns Wait opens a comment)
JustClosed == pc = "run" /\ InCode /\ res = "Wait" /\ opened_at # 0

\* the rule of the comment that was opened last: the first rule, in table
\* order, whose open pattern stands where that comment opened
ClosedRule ==
    comments[CHOOSE i \in 1..Len(comments) :
        /\ OccursAt(input, comments[i].open_pat, opened_at)
        /\ \A j \in 1..(i - 1) : ~OccursAt(input, comments[j].open_pat, opened_at)]

\* the step after the close of a comment whose rule keeps its close pattern
C14_Step ==
    (JustClosed /\ Valid(comments) /\ Ascii(comments) /\ ClosedRule.keep_close_pat) =>
        /\ matches(filled[1], ClosedRule.close_pat)
        /\ pc' = "run"
        /\ out' = Append(out, ClosedRule.close_pat[1])
        /\ state' = None
        /\ ~in_string'

PlainText == {<<>>, <<"a">>}

\* a whole scan of plain text, one comment of a rule that keeps its close
\* pattern, plain text
C14_Final ==
    \A i \in 1..Len(comments) : \A pre \in PlainText, body \in PlainText, post \in PlainText :
        (/\ Done
         /\ comments[i].keep_close_pat
         /\ Valid(comments)
         /\ Ascii(comments)
         /\ input = pre \o comments[i].open_pat \o body \o comments[i].close_pat \o post)
            => (pc = "eos" /\ out = pre \o comments[i].close_pat \o post)

\* C14 as stated: for every rule with keep_close_pat = true (of a valid
\* table with one-byte characters), when its comment is closed the characters of the close pattern
\* are not dropped: they appear in the output, in order, right after the
\* text that preceded the comment, and the scan goes on in Code mode without
\* a fatal error.
C14_AsStated == [][C14_Step]_vars /\ []C14_Final

----------------------------------------------------------------------------
(* C15 *)

C15_Step ==
    /\ (Stepping /\ in_string) => (state' = state /\ pc' # "panic_close")
    /\ (Stepping /\ InComment) => (~in_string' /\ string_delimiter' = None)
    /\ (state = None /\ state' # None) => InCode
    /\ (~in_string /\ in_string') => InCode

\* C15: a comment or a string begins only from Code mode. No step taken in
\* InString mode changes the comment state or raises the unbalanced-delimiter
\* error, and no step taken in InComment mode sets in_string: a quote inside
\* a comment starts no string, a comment delimiter inside a string starts
\* and ends no comment.
C15_OnlyFromCode == [][C15_Step]_vars

\* a block comment that holds a quote has been read to its end
C15_Witness ==
    /\ comments = RUSTC
    /\ input = <<"/", "*", DQ, "*", "/">>
    /\ pc = "eos"
    /\ out = <<>>
    /\ ~in_string
    /\ state = None

----------------------------------------------------------------------------
(* C16 *)

\* a comment rule triggers on the buffer b: an open pattern matches, or the
\* close pattern of a rule with allow_close_pat = false
RuleTriggers(b) ==
    \E i \in 1..Len(comments) :
        \/ matches(b, comments[i].open_pat)
        \/ matches(b, comments[i].close_pat) /\ ~comments[i].allow_close_pat

C16_Step ==
    (Valid(comments) /\ Stepping /\ InCode
        /\ OccursAt(input, <<BT, BT, BT>>, Pos + 1)
        /\ ~RuleTriggers(filled[1])) =>
            /\ pc' = "run"
            /\ Len(input) - Len(iter') - Len(buf') = Pos + 3
            /\ out' = Append(out, BT)
            /\ in_string'
            /\ string_delimiter' = Some(BT)

\* C16 as stated: in Code mode, for every valid table, when the next three
\* input characters are a backtick triple and no comment rule triggers, the
\* step consumes the three backticks, emits exactly one and enters InString
\* with the backtick as the delimiter.
C16_AsStated == [][C16_Step]_vars

----------------------------------------------------------------------------
(* C17 *)

\* the scanner has been constructed
Constructed == pc \notin {"new", "panic_config"}

----------------------------------------------------------------------------
(* C18 *)

\* s is a subsequence of t
RECURSIVE IsSubseq(_, _)
IsSubseq(s, t) ==
    IF s = <<>> THEN TRUE
    ELSE IF t = <<>> THEN FALSE
    ELSE IF Head(s) = Head(t) THEN IsSubseq(Tail(s), Tail(t))
    ELSE IsSubseq(s, Tail(t))

\* a step that emits appends one of the characters it has just consumed
C18_Step ==
    (out' # out) =>
        \E k \in (Pos + 1)..(Len(input) - Len(iter') - Len(buf')) :
            out' = Append(out, input[k])

\* C18: for every table and input, the emitted characters are a subsequence
\* of the input (of the part of it consumed so far): every emitted character
\* is an input character, the input order is kept, and no input character
\* is emitted twice.
C18_Subsequence == [][C18_Step]_vars /\ []IsSubseq(out, SubSeq(input, 1, Pos))

\* a whole scan that dropped a comment from the middle of the text
C18_Witness ==
    /\ comments = HASKELL
    /\ input = <<"a", "{", "-", "-", "}", "a">>
    /\ pc = "eos"
    /\ out = <<"a", "a">>

----------------------------------------------------------------------------
(* C19 *)

\* C19 as stated: for every table accepted at construction and every input,
\* inputs that end inside a delimiter included, pop_front is never called on
\* an empty buffer and pop_front_n(n) never with n greater than the number
\* of buffered characters.
C19_AsStated == pc # "panic_buf"

----------------------------------------------------------------------------
(* C20 *)

\* the pattern p stands at the front of the buffer b
AtFront(b, p) == Len(b) >= Len(p) /\ SubSeq(b, 1, Len(p)) = p

\* the buffer b is the beginning of the pattern p and stops short of its end
CutShort(b, p) == Len(b) < Len(p) /\ SubSeq(p, 1, Len(b)) = b

\* the patterns the scanner passes to Buf::matches
Matched == Patterns(comments) \cup {<<BT, BT, BT>>}

\* matches is true exactly when the buffer holds at least as many characters
\* as the pattern and its first characters are the pattern
C20_Matches ==
    (pc = "run") =>
        \A p \in Matched :
            matches(filled[1], p) <=> AtFront(filled[1], p)

\* the input ends inside a delimiter: the tail is read as ordinary characters
C20_Step ==
    (/\ Stepping /\ InCode /\ Valid(comments)
     /\ Head(filled[1]) \notin {DQ, SQ}
     /\ \E p \in Matched : CutShort(filled[1], p)
     /\ \A q \in Matched : ~AtFront(filled[1], q)) =>
            /\ pc' = "run"
            /\ out' = Append(out, Head(filled[1]))
            /\ buf' = Tail(filled[1])
            /\ state' = None
            /\ ~in_string'

\* C20 as stated: matches(pattern) is true exactly when the buffer holds at
\* least len(pattern) characters and its first len(pattern) characters equal
\* the pattern; when the buffer holds fewer characters than the pattern (the
\* input ends inside a delimiter), the result is false and the leftover
\* characters are handled as ordinary characters of the current mode.
C20_AsStated == [][C20_Step]_vars /\ []C20_Matches

====
